---- MODULE Spec2Model ----
\* Model of the calendar page of SpotlessScrubbersDashboard: the reschedule
\* form (conflict list, downstream shifts, crew-size / duration resolver) and
\* the day layout (layoutDayJobs).
\*
\* Representation
\*   Date object        an integer: local minutes since day 0, 00:00
\*   date key string    the day number (toDateKey)
\*   "HH:MM" string     the pair <<hours, minutes>>
\*   hours (duration)   counted in half-hours (1.5h is 3); 0 stands for a
\*                      missing/falsy job.hours
\*   laborHours         crew x duration, in the same half-hour unit
\*   raw date string    a record [kind, day, min], see parseJobDate
EXTENDS Integers, Sequences, FiniteSets, TLC

\* ---------------------------------------------------------------- constants
START_HOUR == 7
END_HOUR == 19
HOUR_HEIGHT == 56
MIN_SLOT == 15
FALLBACK_HOURS == 3
DEFAULT_START_HOUR == 9
MIN_HEIGHT == 48
EMPTY_DATE == -1

\* ------------------------------------------------------------------- bounds
MaxJobs == 3
MaxCrew == 3
MaxLayoutJobs == 4
MaxHalfHours == 4
MaxShortJobs == 3
MaxAttempts == 1
MaxMoves == 2

DAY == 24 * 60

\* ------------------------------------------------------------ number helpers
Max(a, b) == IF a >= b THEN a ELSE b
Min(a, b) == IF a <= b THEN a ELSE b

\* Math.round(n / d) for n >= 0, d > 0: halves round up.
RoundDiv(n, d) == (2 * n + d) \div (2 * d)

clamp(value, min, max) == Min(max, Max(min, value))

\* ------------------------------------------------------------- time helpers
toDateKey(date) == date \div DAY
getHours(date) == (date % DAY) \div 60
getMinutes(date) == date % 60
addMinutes(date, minutes) == date + minutes

minutesToTime(totalMinutes) == <<totalMinutes \div 60, totalMinutes % 60>>
timeToMinutes(time) == time[1] * 60 + time[2]
snapMinutes(value) == RoundDiv(value, MIN_SLOT) * MIN_SLOT
snapTimeValue(time) == minutesToTime(snapMinutes(timeToMinutes(time)))

\* new Date(`${dateKey}T${time}:00`)
DateOf(dateKey, time) == dateKey * DAY + timeToMinutes(time)

\* Raw date strings.  kind "none": absent; "dateOnly": "YYYY-MM-DD";
\* "midnightZ": "YYYY-MM-DDT00:00:00Z"; "local": "YYYY-MM-DDTHH:MM:00".
NoValue == [kind |-> "none", day |-> 0, min |-> 0]
DateOnly(d) == [kind |-> "dateOnly", day |-> d, min |-> 0]
MidnightZ(d) == [kind |-> "midnightZ", day |-> d, min |-> 0]
Local(d, m) == [kind |-> "local", day |-> d, min |-> m]

formatLocalDateTime(date) == Local(toDateKey(date), date % DAY)

\* Minutes of a duration held in half-hours: Math.round(hours * 60).
DurationMinutes(hours) == hours * 30

\* ---------------------------------------------------------- sequence helpers
RECURSIVE SetToSeqById(_)
\* The jobs of a set as a list, in id order.
SetToSeqById(S) ==
    IF S = {} THEN <<>>
    ELSE LET j == CHOOSE x \in S : \A y \in S : x.id <= y.id
         IN  <<j>> \o SetToSeqById(S \ {j})

SeqMap(Op(_), s) == [i \in 1..Len(s) |-> Op(s[i])]
Range(s) == {s[i] : i \in 1..Len(s)}

\* -------------------------------------------------------------------- state
VARIABLES
    jobs,                \* useState<Job[]>([])
    fetched,             \* the mount effect's fetchData has delivered
    now,                 \* the clock read by new Date()
    pendingMove,         \* <<>> for null, else <<[job, targetDate, targetTime]>>
    targetDate,
    targetTime,
    teamInput,           \* the text field, as its comma-separated pieces
    crewSize,
    durationHours,
    autoAdjustDuration,
    laborHours,
    shiftDownstream,
    trip,                \* history: form values before the last crew-size change
    conflictDetails,     \* <<>> for null, else <<[conflicts, targetDate, targetTime, job]>>
    cascadePreview,      \* <<>> for null, else <<the CascadeResult>>
    showCascadeModal,
    saveError,
    requests,            \* history: the reschedule requests sent, with their outcome
    durationEdited,      \* history: the form's duration was changed since it opened
    saving,
    run,                 \* <<>>, or <<what an executeReschedule in flight holds>>
    layoutJobs,             \* the list handed to layoutDayJobs
    rendered,            \* layoutDayJobs has returned for layoutJobs
    layoutClusters,            \* layoutDayJobs' clusters when it returned
    layoutResult           \* layoutDayJobs' result

vars == <<jobs, fetched, now, pendingMove, targetDate, targetTime, teamInput,
          crewSize, durationHours, autoAdjustDuration, laborHours,
          shiftDownstream, trip, conflictDetails, cascadePreview,
          showCascadeModal, saveError, requests, durationEdited, saving, run,
          layoutJobs, rendered, layoutClusters, layoutResult>>

pageVars == <<jobs, fetched, now, pendingMove>>
commitVars == <<conflictDetails, cascadePreview, showCascadeModal, saveError,
                requests, durationEdited, saving, run>>
layoutVars == <<layoutJobs, rendered, layoutClusters, layoutResult>>

formVars == <<targetDate, targetTime, teamInput, crewSize, durationHours,
              autoAdjustDuration, laborHours, shiftDownstream>>

\* ---------------------------------------------------------------- job access
\* parseJobDate: scheduledAt wins over date; no value reads the clock; a date
\* alone or a UTC-midnight stamp means 09:00 local on that day.
parseJobDate(job) ==
    LET value == IF job.scheduledAt.kind # "none" THEN job.scheduledAt ELSE job.date
    IN  CASE value.kind = "none" -> now
          [] value.kind = "midnightZ" -> value.day * DAY + DEFAULT_START_HOUR * 60
          [] value.kind = "local" -> value.day * DAY + value.min
          [] OTHER -> value.day * DAY + DEFAULT_START_HOUR * 60

getDurationHours(job) == IF job.hours # 0 THEN job.hours ELSE 2 * FALLBACK_HOURS

JobEnd(job) == addMinutes(parseJobDate(job), DurationMinutes(getDurationHours(job)))

\* teamInput.split(",").map(trim).filter(Boolean)
TeamList(input) == SelectSeq(input, LAMBDA name : name # "")

\* cleaningTeam.join(", ")
JoinTeam(team) == IF team = <<>> THEN <<"">> ELSE team

NoMove == <<>>
HasMove == pendingMove # NoMove
PM == pendingMove[1]

\* ------------------------------------------------------- derived form values
\* The placement under edit: new Date(`${targetDate}T${targetTime}:00`).
nextStart == DateOf(targetDate, targetTime)
nextEnd == addMinutes(nextStart, DurationMinutes(durationHours))

\* Overlap with closed intervals: touching endpoints count.
Overlap_closed(job, from, to) ==
    LET jobStart == parseJobDate(job)
        jobEnd == JobEnd(job)
        sameDay == toDateKey(jobStart) = toDateKey(from)
    IN  sameDay /\ jobStart <= to /\ jobEnd >= from

\* Overlap without the same-day test.
Overlap_anyDay(job, from, to) ==
    LET jobStart == parseJobDate(job)
        jobEnd == JobEnd(job)
    IN  jobStart < to /\ jobEnd > from

\* The overlap test of one sibling against the interval [from, to).
Overlap(job, from, to) ==
    LET jobStart == parseJobDate(job)
        jobEnd == JobEnd(job)
        sameDay == toDateKey(jobStart) = toDateKey(from)
    IN  sameDay /\ jobStart < to /\ jobEnd > from

\* Team comparison that looks at the first member of each team only.
TeamOverlap_first(job, team) ==
    /\ Len(job.cleaningTeam) > 0
    /\ Len(team) > 0
    /\ job.cleaningTeam[1] = team[1]

TeamOverlap(job, team) ==
    \E i \in 1..Len(job.cleaningTeam) : job.cleaningTeam[i] \in Range(team)

ConflictOf(job, team) ==
    [job |-> job,
     reason |-> [kind |-> IF TeamOverlap(job, team) THEN "Team" ELSE "Time",
                 client |-> job.client]]

\* A conflict scan that reports nothing.
DetectConflicts_none(movedId, from, to, team) == <<>>

\* The conflict scan shared by the form and by a drop: every other job that
\* overlaps [from, to) on from's day, in list order.
DetectConflicts(movedId, from, to, team) ==
    SeqMap(LAMBDA job : ConflictOf(job, team),
           SelectSeq(jobs, LAMBDA job : job.id # movedId /\ Overlap(job, from, to)))

\* conflicts (useMemo)
conflicts ==
    IF ~HasMove THEN <<>>
    ELSE DetectConflicts(PM.job.id, nextStart, nextEnd, TeamList(teamInput))

originalStart == parseJobDate(PM.job)
originalEnd == JobEnd(PM.job)

RECURSIVE SortByStart(_)
\* Array.prototype.sort on parseJobDate(a) - parseJobDate(b): stable.
SortByStart(s) ==
    IF Len(s) <= 1 THEN s
    ELSE LET rest == SortByStart(Tail(s))
             x == Head(s)
             k == Cardinality({i \in 1..Len(rest) :
                                 parseJobDate(rest[i]) < parseJobDate(x)})
         IN  SubSeq(rest, 1, k) \o <<x>> \o SubSeq(rest, k + 1, Len(rest))

\* Downstream selection without the same-day test.
downstreamJobs_anyDay ==
    IF ~HasMove THEN <<>>
    ELSE SortByStart(
           SelectSeq(jobs, LAMBDA job :
               /\ job.id # PM.job.id
               /\ parseJobDate(job) >= originalEnd))

\* downstreamJobs (useMemo)
downstreamJobs ==
    IF ~HasMove THEN <<>>
    ELSE SortByStart(
           SelectSeq(jobs, LAMBDA job :
               /\ job.id # PM.job.id
               /\ toDateKey(parseJobDate(job)) = toDateKey(originalStart)
               /\ parseJobDate(job) >= originalEnd))

\* Delta measured from the new start instead of the new end.
deltaMinutes_fromStart == nextStart - originalEnd

\* newEnd - originalEnd in minutes: the primary job's deltaMinutes.
deltaMinutes == nextEnd - originalEnd

\* Shift without the clamp at zero.
shiftMinutes_unclamped == IF ~HasMove THEN 0 ELSE deltaMinutes

\* shiftMinutes (useMemo)
shiftMinutes == IF ~HasMove THEN 0 ELSE Max(0, deltaMinutes)

ShiftOf(job) ==
    LET shiftedStart == addMinutes(parseJobDate(job), shiftMinutes)
    IN  [job |-> job,
         newDate |-> toDateKey(shiftedStart),
         newTime |-> minutesToTime(getHours(shiftedStart) * 60 + getMinutes(shiftedStart))]

\* shiftedDownstream (useMemo)
shiftedDownstream ==
    IF ~HasMove \/ ~shiftDownstream \/ shiftMinutes = 0 THEN <<>>
    ELSE SeqMap(ShiftOf, downstreamJobs)

\* affectedClients of a CascadeResult keeping every change's client label,
\* repeated when one client has several jobs among the changes.
affectedClientsOf_repeated(changes) ==
    [i \in 1..Len(changes) |-> [name |-> changes[i].job.client, index |-> i]]

\* affectedClients of a CascadeResult: the client labels of the changes in
\* order, each label kept at its first occurrence only.
affectedClientsOf(changes) ==
    LET clients == SeqMap(LAMBDA change : change.job.client, changes)
    IN  SelectSeq([i \in 1..Len(clients) |-> [name |-> clients[i], index |-> i]],
                  LAMBDA entry : \A k \in 1..(entry.index - 1) :
                                    clients[k] # entry.name)

\* calculateCascade of lib/cascade-scheduler: the primary change, the forward
\* shifts of the jobs queued behind it on its original day, the conflicts at
\* the new placement, and the affected clients.
calculateCascade(job, newStartTime, newDuration, allJobs) ==
    LET start == parseJobDate(job)
        duration == getDurationHours(job)
        end == addMinutes(start, DurationMinutes(duration))
        newEnd == addMinutes(newStartTime, DurationMinutes(newDuration))
        delta == newEnd - end
        primaryChange ==
            [job |-> job, originalStart |-> start, newStart |-> newStartTime,
             originalDuration |-> duration, newDuration |-> newDuration,
             deltaMinutes |-> delta,
             reason |-> [kind |-> "primary", client |-> job.client]]
        queued == SortByStart(SelectSeq(allJobs, LAMBDA other :
                     /\ other.id # job.id
                     /\ toDateKey(parseJobDate(other)) = toDateKey(start)
                     /\ parseJobDate(other) >= end))
        Shifted(other) ==
            [job |-> other, originalStart |-> parseJobDate(other),
             newStart |-> addMinutes(parseJobDate(other), delta),
             originalDuration |-> getDurationHours(other),
             newDuration |-> getDurationHours(other),
             deltaMinutes |-> delta,
             reason |-> [kind |-> "shifted", client |-> job.client]]
        downstream == IF delta <= 0 THEN <<>> ELSE SeqMap(Shifted, queued)
        changes == <<primaryChange>> \o downstream
    IN  [changes |-> changes,
         conflicts |-> SeqMap(LAMBDA other : ConflictOf(other, job.cleaningTeam),
                          SelectSeq(allJobs, LAMBDA other :
                              other.id # job.id /\ Overlap(other, newStartTime, newEnd))),
         affectedClients |-> affectedClientsOf(changes)]

\* ------------------------------------------------------------- day layout
totalMinutes == (END_HOUR - START_HOUR + 1) * 60

\* layoutDayJobs, normalisation: the job's [start, end) in minutes from
\* START_HOUR:00, clamped to the displayed hours, at least MIN_SLOT long.
EventOf(job) ==
    LET startDate == parseJobDate(job)
        durationMinutes == DurationMinutes(getDurationHours(job))
        startMinutes == (getHours(startDate) - START_HOUR) * 60 + getMinutes(startDate)
        clampedStart == clamp(startMinutes, 0, totalMinutes)
        clampedEnd == clamp(clampedStart + durationMinutes, 0, totalMinutes)
    IN  [job |-> job, start |-> clampedStart,
         end |-> Max(clampedEnd, clampedStart + MIN_SLOT)]

RECURSIVE SortEvents(_)
\* Array.prototype.sort on a.start - b.start: stable.
SortEvents(s) ==
    IF Len(s) <= 1 THEN s
    ELSE LET rest == SortEvents(Tail(s))
             x == Head(s)
             k == Cardinality({i \in 1..Len(rest) : rest[i].start < x.start})
         IN  SubSeq(rest, 1, k) \o <<x>> \o SubSeq(rest, k + 1, Len(rest))

LayoutEvents(dayJobs) == SortEvents(SeqMap(EventOf, dayJobs))

RECURSIVE Sweep_lastEnd(_, _, _, _)
\* Sweep that tracks the last event's end instead of the running maximum.
Sweep_lastEnd(events, clusters, currentCluster, clusterEnd) ==
    IF events = <<>>
    THEN IF Len(currentCluster) # 0 THEN Append(clusters, currentCluster) ELSE clusters
    ELSE LET event == Head(events)
         IN  IF Len(currentCluster) = 0 \/ event.start < clusterEnd
             THEN Sweep_lastEnd(Tail(events), clusters, Append(currentCluster, event),
                                event.end)
             ELSE Sweep_lastEnd(Tail(events), Append(clusters, currentCluster),
                                <<event>>, event.end)

RECURSIVE Sweep_noFlush(_, _, _, _)
\* The sweep without the push of the cluster still open at the end.
Sweep_noFlush(events, clusters, currentCluster, clusterEnd) ==
    IF events = <<>>
    THEN clusters
    ELSE LET event == Head(events)
         IN  IF Len(currentCluster) = 0 \/ event.start < clusterEnd
             THEN Sweep_noFlush(Tail(events), clusters, Append(currentCluster, event),
                                Max(clusterEnd, event.end))
             ELSE Sweep_noFlush(Tail(events), Append(clusters, currentCluster),
                                <<event>>, event.end)

RECURSIVE Sweep(_, _, _, _)
\* The cluster sweep: events.forEach with clusters, currentCluster, clusterEnd.
Sweep(events, clusters, currentCluster, clusterEnd) ==
    IF events = <<>>
    THEN IF Len(currentCluster) # 0 THEN Append(clusters, currentCluster) ELSE clusters
    ELSE LET event == Head(events)
         IN  IF Len(currentCluster) = 0 \/ event.start < clusterEnd
             THEN Sweep(Tail(events), clusters, Append(currentCluster, event),
                        Max(clusterEnd, event.end))
             ELSE Sweep(Tail(events), Append(clusters, currentCluster),
                        <<event>>, event.end)

LayoutClusters(events) == Sweep(events, <<>>, <<>>, -1)

\* Column search that compares the event's end with the tracked end.
FirstFreeColumn_byEnd(columns, event) ==
    IF \E i \in 1..Len(columns) : event.end >= columns[i]
    THEN CHOOSE i \in 1..Len(columns) :
            /\ event.end >= columns[i]
            /\ \A j \in 1..(i - 1) : event.end < columns[j]
    ELSE 0

\* Column search that never reuses a column.
FirstFreeColumn_never(columns, event) == 0

\* The first column (1-based) an event fits in, 0 when none: event.start >= columns[i].
FirstFreeColumn(columns, event) ==
    IF \E i \in 1..Len(columns) : event.start >= columns[i]
    THEN CHOOSE i \in 1..Len(columns) :
            /\ event.start >= columns[i]
            /\ \A j \in 1..(i - 1) : event.start < columns[j]
    ELSE 0

RECURSIVE AssignColumns(_, _, _)
\* Column assignment of one cluster: columns holds each column's tracked end,
\* eventColumns maps a job id to its 0-based column (Map.set overwrites).
AssignColumns(cluster, columns, eventColumns) ==
    IF cluster = <<>> THEN [columns |-> columns, eventColumns |-> eventColumns]
    ELSE LET event == Head(cluster)
             i == FirstFreeColumn(columns, event)
             id == event.job.id
         IN  IF i # 0
             THEN AssignColumns(Tail(cluster), [columns EXCEPT ![i] = event.end],
                                (id :> (i - 1)) @@ eventColumns)
             ELSE AssignColumns(Tail(cluster), Append(columns, event.end),
                                (id :> Len(columns)) @@ eventColumns)

ClusterColumns(cluster) == AssignColumns(cluster, <<>>, <<>>)

\* The positioned jobs of one cluster.  top and height are in fifteenths of a
\* pixel; left and width are the fractions columnIndex / columnCount and
\* 1 / columnCount, held as <<numerator, denominator>>.
PositionCluster(cluster) ==
    LET assigned == ClusterColumns(cluster)
        columnCount == Len(assigned.columns)
        Position(event) ==
            LET columnIndex ==
                    IF event.job.id \in DOMAIN assigned.eventColumns
                    THEN assigned.eventColumns[event.job.id] ELSE 0
            IN  [job |-> event.job,
                 top |-> (event.start * HOUR_HEIGHT * 15) \div 60,
                 height |-> Max(((event.end - event.start) * HOUR_HEIGHT * 15) \div 60,
                                MIN_HEIGHT * 15),
                 left |-> <<columnIndex, columnCount>>,
                 width |-> <<1, columnCount>>]
    IN  SeqMap(Position, cluster)

RECURSIVE Flatten(_)
Flatten(seqs) == IF seqs = <<>> THEN <<>> ELSE Head(seqs) \o Flatten(Tail(seqs))

layoutDayJobs(dayJobs) ==
    Flatten(SeqMap(PositionCluster, LayoutClusters(LayoutEvents(dayJobs))))

\* --------------------------------------------------------- duration resolver
\* calculateDurationForTeamChange of lib/cascade-scheduler: labor-hours
\* (duration x original crew) spread over the new crew, rounded to the nearest
\* half hour and floored at 0.5h; a crew below 1 counts as 1.
calculateDurationForTeamChange(originalDuration, originalCrew, newCrew) ==
    Max(1, RoundDiv(originalDuration * originalCrew, Max(1, newCrew)))

OriginalCrew(job) == IF Len(job.cleaningTeam) # 0 THEN Len(job.cleaningTeam) ELSE 1

\* The effect without its autoAdjustDuration test.
AutoRecalcEffect_always(move, crew, auto, duration, labor) ==
    IF move # NoMove /\ OriginalCrew(move[1].job) # crew
    THEN LET newDuration == calculateDurationForTeamChange(
                                getDurationHours(move[1].job),
                                OriginalCrew(move[1].job), crew)
         IN  [duration |-> newDuration, labor |-> crew * newDuration]
    ELSE [duration |-> duration, labor |-> labor]

\* The "auto-recalculate duration" effect, run for a render whose state holds
\* move, crew, auto, and the duration / labor-hours given: what it leaves.
AutoRecalcEffect(move, crew, auto, duration, labor) ==
    IF move # NoMove /\ OriginalCrew(move[1].job) # crew /\ auto
    THEN LET newDuration == calculateDurationForTeamChange(
                                getDurationHours(move[1].job),
                                OriginalCrew(move[1].job), crew)
         IN  [duration |-> newDuration, labor |-> crew * newDuration]
    ELSE [duration |-> duration, labor |-> labor]

\* The crew-size change without the clamp of the crew size at 1.
CrewSizeChange_unclamped(value) ==
    LET adjust == autoAdjustDuration /\ laborHours # 0
        nextDuration == IF adjust THEN Max(1, RoundDiv(laborHours, Max(1, value)))
                        ELSE durationHours
        nextLabor == IF adjust THEN laborHours ELSE value * durationHours
    IN  [crew |-> value, duration |-> nextDuration, labor |-> nextLabor]

\* handleCrewSizeChange, then the effect its crewSize update triggers.
CrewSizeChange(value) ==
    LET nextCrew == Max(1, value)
        adjust == autoAdjustDuration /\ laborHours # 0
        nextDuration == IF adjust THEN Max(1, RoundDiv(laborHours, nextCrew))
                        ELSE durationHours
        nextLabor == IF adjust THEN laborHours ELSE nextCrew * durationHours
        after == IF nextCrew # crewSize
                 THEN AutoRecalcEffect(pendingMove, nextCrew, autoAdjustDuration,
                                       nextDuration, nextLabor)
                 ELSE [duration |-> nextDuration, labor |-> nextLabor]
    IN  [crew |-> nextCrew, duration |-> after.duration, labor |-> after.labor]

\* ------------------------------------------------------------------ actions
\* The mount effect: fetchData stores the job list it is given.
fetchData(list) ==
    /\ ~fetched
    /\ jobs' = list
    /\ fetched' = TRUE
    /\ UNCHANGED <<now, pendingMove, formVars>>

\* openReschedule on a job shown as a chip (chips exist for jobs with a team;
\* the button is offered while no move is pending), followed by the effects
\* that run on the new pendingMove.  The auto-recalculate effect runs in the
\* same pass as the initialising effect and still sees the previous crewSize;
\* its updates are applied after the initialising ones.
openReschedule(job) ==
    LET jobStart == parseJobDate(job)
        minutes == snapMinutes(getHours(jobStart) * 60 + getMinutes(jobStart))
        move == <<[job |-> job,
                   targetDate |-> toDateKey(jobStart),
                   targetTime |-> minutesToTime(minutes)]>>
        initialDuration == getDurationHours(job)
        initialCrew == OriginalCrew(job)
        after == AutoRecalcEffect(move, crewSize, autoAdjustDuration,
                                  initialDuration, initialCrew * initialDuration)
    IN  /\ fetched
        /\ ~HasMove
        /\ job \in Range(jobs)
        /\ Len(job.cleaningTeam) > 0
        /\ pendingMove' = move
        /\ targetDate' = move[1].targetDate
        /\ targetTime' = snapTimeValue(move[1].targetTime)
        /\ teamInput' = JoinTeam(job.cleaningTeam)
        /\ crewSize' = initialCrew
        /\ durationHours' = after.duration
        /\ laborHours' = after.labor
        /\ shiftDownstream' = FALSE
        /\ UNCHANGED <<jobs, fetched, now, autoAdjustDuration>>

closePanel ==
    /\ HasMove
    /\ pendingMove' = NoMove
    /\ UNCHANGED <<jobs, fetched, now, formVars>>

setTargetDate(value) ==
    /\ HasMove
    /\ targetDate' = value
    /\ UNCHANGED <<jobs, fetched, now, pendingMove, targetTime, teamInput, crewSize,
                   durationHours, autoAdjustDuration, laborHours, shiftDownstream>>

\* The start-time select: setTargetTime(snapTimeValue(value)).
setTargetTime(value) ==
    /\ HasMove
    /\ targetTime' = snapTimeValue(value)
    /\ UNCHANGED <<jobs, fetched, now, pendingMove, targetDate, teamInput, crewSize,
                   durationHours, autoAdjustDuration, laborHours, shiftDownstream>>

\* The "shift following jobs" checkbox, rendered while there are downstream
\* jobs and a positive shift.
setShiftDownstream(checked) ==
    /\ HasMove
    /\ Len(downstreamJobs) > 0
    /\ shiftMinutes > 0
    /\ shiftDownstream' = checked
    /\ UNCHANGED <<jobs, fetched, now, pendingMove, targetDate, targetTime, teamInput,
                   crewSize, durationHours, autoAdjustDuration, laborHours>>

handleCrewSizeChange(value) ==
    LET next == CrewSizeChange(value)
    IN  /\ HasMove
        /\ crewSize' = next.crew
        /\ durationHours' = next.duration
        /\ laborHours' = next.labor
        /\ UNCHANGED <<jobs, fetched, now, pendingMove, targetDate, targetTime,
                       teamInput, autoAdjustDuration, shiftDownstream>>

\* handleDurationChange; value is the number typed, in quarter hours.
handleDurationChange(value) ==
    LET nextDuration == Max(1, RoundDiv(value, 2))
    IN  /\ HasMove
        /\ durationHours' = nextDuration
        /\ laborHours' = nextDuration * crewSize
        /\ UNCHANGED <<jobs, fetched, now, pendingMove, targetDate, targetTime,
                       teamInput, crewSize, autoAdjustDuration, shiftDownstream>>

\* handleAutoAdjustToggle, then the effect the toggled flag triggers.
handleAutoAdjustToggle ==
    LET nextValue == ~autoAdjustDuration
        nextDuration == IF nextValue THEN Max(1, RoundDiv(laborHours, crewSize))
                        ELSE durationHours
        after == AutoRecalcEffect(pendingMove, crewSize, nextValue,
                                  nextDuration, laborHours)
    IN  /\ HasMove
        /\ autoAdjustDuration' = nextValue
        /\ durationHours' = after.duration
        /\ laborHours' = after.labor
        /\ UNCHANGED <<jobs, fetched, now, pendingMove, targetDate, targetTime,
                       teamInput, crewSize, shiftDownstream>>

handleTeamInputChange(value) ==
    LET count == Len(TeamList(value))
        next == IF count > 0 THEN CrewSizeChange(count)
                ELSE [crew |-> crewSize, duration |-> durationHours, labor |-> laborHours]
    IN  /\ HasMove
        /\ teamInput' = value
        /\ crewSize' = next.crew
        /\ durationHours' = next.duration
        /\ laborHours' = next.labor
        /\ UNCHANGED <<jobs, fetched, now, pendingMove, targetDate, targetTime,
                       autoAdjustDuration, shiftDownstream>>

\* ------------------------------------------------------------ array effects
\* The arrays a computation touches: input is the caller's array, fresh the
\* array that filter or map returned.  Array.prototype.sort orders the array
\* it is called on, in place.

\* jobs.filter(...).filter(...).sort(...) with the sort applied to jobs itself.
DownstreamArrays_sortsInput(list) ==
    [input |-> SortByStart(list), fresh |-> downstreamJobs]

\* downstreamJobs: jobs.filter(...).filter(...).sort(...) sorts the filtered copy.
DownstreamArrays(list) ==
    LET filtered == SelectSeq(list, LAMBDA job :
                        /\ job.id # PM.job.id
                        /\ toDateKey(parseJobDate(job)) = toDateKey(originalStart)
                        /\ parseJobDate(job) >= originalEnd)
    IN  [input |-> list, fresh |-> SortByStart(filtered)]

\* conflicts: jobs.filter(...).map(...).filter(Boolean), no sort.
ConflictArrays(list) == [input |-> list, fresh |-> conflicts]

\* layoutDayJobs: dayJobs.map(...).sort(...) sorts the mapped copy.
LayoutArrays(dayJobs) ==
    [input |-> dayJobs, fresh |-> SortEvents(SeqMap(EventOf, dayJobs))]

\* jobsByDate.get(dateKey) || []: the jobs with a team that start on dateKey.
DayJobs(dateKey) ==
    SelectSeq(jobs, LAMBDA job :
        Len(job.cleaningTeam) > 0 /\ toDateKey(parseJobDate(job)) = dateKey)

\* One render of the page with the day column of dateKey: the memos, then
\* layoutDayJobs(dayJobs); jobs and dayJobs are left as the calls leave them.
renderCalendar(dateKey) ==
    LET dayJobs == DayJobs(dateKey)
        afterConflicts == IF HasMove THEN ConflictArrays(jobs).input ELSE jobs
        afterDownstream == IF HasMove THEN DownstreamArrays(afterConflicts).input
                           ELSE afterConflicts
    IN  /\ fetched
        /\ ~rendered
        /\ jobs' = afterDownstream
        /\ layoutJobs' = LayoutArrays(dayJobs).input
        /\ layoutClusters' = LayoutClusters(LayoutArrays(dayJobs).fresh)
        /\ layoutResult' = layoutDayJobs(dayJobs)
        /\ rendered' = TRUE
        /\ UNCHANGED <<fetched, now, pendingMove, formVars>>

\* ------------------------------------------------------------- persistence
\* dragOverMinutes while no column position is tracked.
NoMinutes == -1

\* A modal covers the page: the cascade preview or the conflict dialog.
ModalOpen == (showCascadeModal /\ cascadePreview # <<>>) \/ conflictDetails # <<>>

\* Attempts to persist made so far (each sends one or more requests).
Attempts == IF requests = <<>> THEN 0 ELSE requests[Len(requests)].attempt

\* The job with this id as the job list has it.
ShownJob(id) == CHOOSE job \in Range(jobs) : job.id = id

\* One POST /api/jobs/{id}/reschedule as sent: job is the record the handler
\* held, hours 0 stands for an absent hours value, hasTeam tells whether the
\* body has a cleaningTeam; edited, attempt and shown (the job as the list had
\* it when the request was sent) are history.
Request(via, job, date, startTime, hours, team, hasTeam, edited) ==
    [via |-> via, job |-> job, date |-> date, startTime |-> startTime,
     hours |-> hours, cleaningTeam |-> team, hasTeam |-> hasTeam,
     edited |-> edited, attempt |-> Attempts + 1, outcome |-> "ok",
     shown |-> ShownJob(job.id)]

\* setJobs(prev => prev.map(...)) giving job id a date and a scheduledAt.
WithDate(list, id, date, scheduledAt) ==
    [i \in 1..Len(list) |->
        IF list[i].id = id
        THEN [list[i] EXCEPT !.date = date, !.scheduledAt = scheduledAt]
        ELSE list[i]]

\* The optimistic move of one job, its request, and the revert when the
\* request fails: shared by a conflict-free drop and by an override.
MoveAndSend(via, job, dateKey, time, failure) ==
    LET updatedDateTime == formatLocalDateTime(DateOf(dateKey, time))
        request == Request(via, job, dateKey, time, job.hours, job.cleaningTeam,
                           TRUE, FALSE)
    IN  \E ok \in BOOLEAN :
          /\ requests' = Append(requests,
                                [request EXCEPT !.outcome = IF ok THEN "ok" ELSE "failed"])
          /\ jobs' = LET moved == WithDate(jobs, job.id, updatedDateTime, updatedDateTime)
                     IN  IF ok THEN moved
                         ELSE WithDate(moved, job.id, job.date, job.scheduledAt)
          /\ saveError' = IF ok THEN "" ELSE failure

\* A drag of a chip that ends in a drop on dateKey.  handleDragStart supplies
\* the job id, handleColumnDragOver the tracked minutes (NoMinutes on a month
\* cell), and handleDragEnd clears both afterwards.
handleDrop(dateKey, job, dragOverMinutes) ==
    LET currentDateKey == toDateKey(parseJobDate(job))
        existingMinutes == getHours(parseJobDate(job)) * 60 + getMinutes(parseJobDate(job))
        snappedExistingMinutes == snapMinutes(existingMinutes)
        dropMinutes == IF dragOverMinutes # NoMinutes
                       THEN snapMinutes(START_HOUR * 60 + dragOverMinutes)
                       ELSE snappedExistingMinutes
        targetTimeValue == minutesToTime(dropMinutes)
        from == DateOf(dateKey, targetTimeValue)
        to == addMinutes(from, DurationMinutes(getDurationHours(job)))
        detectedConflicts == DetectConflicts(job.id, from, to, job.cleaningTeam)
    IN  /\ job \in Range(jobs)
        /\ Len(job.cleaningTeam) > 0
        /\ ~ModalOpen
        /\ IF currentDateKey = dateKey /\ dropMinutes = snappedExistingMinutes
           THEN /\ saveError' = "Drop cancelled: same time selected."
                /\ UNCHANGED <<jobs, conflictDetails, requests>>
           ELSE IF Len(detectedConflicts) > 0
           THEN /\ conflictDetails' = <<[conflicts |-> detectedConflicts,
                                         targetDate |-> dateKey,
                                         targetTime |-> targetTimeValue,
                                         job |-> job]>>
                /\ UNCHANGED <<jobs, saveError, requests>>
           ELSE /\ MoveAndSend("drop", job, dateKey, targetTimeValue,
                               "Reschedule failed. Please try again.")
                /\ UNCHANGED conflictDetails
        /\ UNCHANGED <<fetched, now, pendingMove, formVars, cascadePreview,
                       showCascadeModal, durationEdited>>

handleOverrideConflict ==
    /\ conflictDetails # <<>>
    /\ MoveAndSend("override", conflictDetails[1].job, conflictDetails[1].targetDate,
                   conflictDetails[1].targetTime, "Override failed. Please try again.")
    /\ conflictDetails' = <<>>
    /\ UNCHANGED <<fetched, now, pendingMove, formVars, cascadePreview,
                   showCascadeModal, durationEdited>>

\* Cancel and X of the conflict dialog.
closeConflictModal ==
    /\ conflictDetails # <<>>
    /\ conflictDetails' = <<>>
    /\ UNCHANGED <<pageVars, formVars, cascadePreview, showCascadeModal, saveError,
                   requests, durationEdited>>

\* The request of one cascaded change.
CascadeRequest(change) ==
    Request("cascade", change.job, toDateKey(change.newStart),
            minutesToTime(getHours(change.newStart) * 60 + getMinutes(change.newStart)),
            change.newDuration, <<>>, FALSE, FALSE)

\* executeReschedule: the primary request, then one request per cascaded
\* change, one after the other; the first failure ends the sequence.  The job
\* list and pendingMove change only when every request succeeded.  saving is
\* set on entry and reset by the finally block, so it is as before afterwards.
executeReschedule(applyCascade) ==
    LET teamList == TeamList(teamInput)
        updatedDateTime == formatLocalDateTime(DateOf(targetDate, targetTime))
        primary == Request("confirm", PM.job, targetDate, targetTime, durationHours,
                           teamList, TRUE, durationEdited)
        cascadedChanges == IF applyCascade /\ cascadePreview # <<>>
                           THEN Tail(cascadePreview[1].changes) ELSE <<>>
        planned == <<primary>> \o SeqMap(CascadeRequest, cascadedChanges)
        ChangeFor(job) == SelectSeq(cascadedChanges, LAMBDA c : c.job.id = job.id)
        Updated(job) ==
            IF job.id = PM.job.id
            THEN [job EXCEPT !.date = updatedDateTime, !.scheduledAt = updatedDateTime,
                             !.hours = durationHours, !.cleaningTeam = teamList]
            ELSE IF ChangeFor(job) # <<>>
                 THEN LET newDateTime == formatLocalDateTime(ChangeFor(job)[1].newStart)
                      IN  [job EXCEPT !.date = newDateTime, !.scheduledAt = newDateTime,
                                      !.hours = ChangeFor(job)[1].newDuration]
                 ELSE job
    IN  /\ HasMove
        /\ \E succeeded \in 0..Len(planned) :
              LET sent == Min(Len(planned), succeeded + 1)
              IN  /\ requests' = requests \o
                        [i \in 1..sent |->
                            [planned[i] EXCEPT !.outcome =
                                IF i <= succeeded THEN "ok" ELSE "failed"]]
                  /\ IF succeeded = Len(planned)
                     THEN /\ jobs' = SeqMap(Updated, jobs)
                          /\ pendingMove' = NoMove
                          /\ saveError' = ""
                     ELSE /\ saveError' = "Unable to reschedule. Try again."
                          /\ UNCHANGED <<jobs, pendingMove>>
        /\ showCascadeModal' = FALSE
        /\ UNCHANGED <<fetched, now, formVars, conflictDetails, cascadePreview,
                       durationEdited>>

\* handleRescheduleConfirm: the cascade of the placement under edit; a preview
\* when it has cascaded changes or conflicts, otherwise the reschedule itself.
handleRescheduleConfirm ==
    LET cascade == calculateCascade(PM.job, nextStart, durationHours, jobs)
    IN  /\ HasMove
        /\ ~ModalOpen
        /\ IF Len(cascade.changes) > 1 \/ Len(cascade.conflicts) > 0
           THEN /\ cascadePreview' = <<cascade>>
                /\ showCascadeModal' = TRUE
                /\ UNCHANGED <<pageVars, formVars, conflictDetails, saveError,
                               requests, durationEdited>>
           ELSE executeReschedule(FALSE)

\* An apply button offered by every cascade preview, conflicts or not.
confirmCascade_withConflicts ==
    /\ showCascadeModal
    /\ cascadePreview # <<>>
    /\ executeReschedule(TRUE)

\* "Confirm & Apply Changes" of the cascade preview, offered while the preview
\* has no conflicts.
confirmCascade ==
    /\ showCascadeModal
    /\ cascadePreview # <<>>
    /\ Len(cascadePreview[1].conflicts) = 0
    /\ executeReschedule(TRUE)

\* Cancel and X of the cascade preview.
closeCascadeModal ==
    /\ showCascadeModal
    /\ cascadePreview # <<>>
    /\ showCascadeModal' = FALSE
    /\ cascadePreview' = <<>>
    /\ UNCHANGED <<pageVars, formVars, conflictDetails, saveError, requests,
                   durationEdited>>

\* ------------------------------------------------- a reschedule in flight
\* What executeReschedule holds from the render it was called in: the job
\* under edit, the form's values, the previewed changes to apply, and the
\* requests it is going to send, in order.
Capture(applyCascade) ==
    LET teamList == TeamList(teamInput)
        primary == Request("confirm", PM.job, targetDate, targetTime, durationHours,
                           teamList, TRUE, durationEdited)
        cascadedChanges == IF applyCascade /\ cascadePreview # <<>>
                           THEN Tail(cascadePreview[1].changes) ELSE <<>>
    IN  [job |-> PM.job,
         updatedDateTime |-> formatLocalDateTime(DateOf(targetDate, targetTime)),
         hours |-> durationHours,
         cleaningTeam |-> teamList,
         changes |-> cascadedChanges,
         planned |-> <<primary>> \o SeqMap(CascadeRequest, cascadedChanges),
         sent |-> 1,
         at |-> Len(requests) + 1]

\* The setJobs of executeReschedule, with the values the run holds.
Applied(held, job) ==
    LET change == SelectSeq(held.changes, LAMBDA c : c.job.id = job.id)
    IN  IF job.id = held.job.id
        THEN [job EXCEPT !.date = held.updatedDateTime,
                         !.scheduledAt = held.updatedDateTime,
                         !.hours = held.hours, !.cleaningTeam = held.cleaningTeam]
        ELSE IF change # <<>>
             THEN LET newDateTime == formatLocalDateTime(change[1].newStart)
                  IN  [job EXCEPT !.date = newDateTime, !.scheduledAt = newDateTime,
                                  !.hours = change[1].newDuration]
             ELSE job

\* executeReschedule up to its first await: saving on, the error and the
\* preview cleared from view, the primary request on its way.
startRun(applyCascade) ==
    LET held == Capture(applyCascade)
    IN  /\ HasMove
        /\ saving' = TRUE
        /\ saveError' = ""
        /\ showCascadeModal' = FALSE
        /\ run' = <<held>>
        /\ requests' = Append(requests, [held.planned[1] EXCEPT !.outcome = "pending"])
        /\ UNCHANGED <<pageVars, formVars, conflictDetails, cascadePreview,
                       durationEdited>>

\* A run that leaves saving set when a request fails.
runStep_noFinally(ok) ==
    /\ run # <<>>
    /\ LET held == run[1]
           answered == [requests EXCEPT ![held.at].outcome = IF ok THEN "ok" ELSE "failed"]
       IN  IF ~ok
           THEN /\ requests' = answered
                /\ saveError' = "Unable to reschedule. Try again."
                /\ run' = <<>>
                /\ UNCHANGED <<jobs, pendingMove, saving>>
           ELSE IF held.sent < Len(held.planned)
           THEN /\ requests' = Append(answered, [held.planned[held.sent + 1]
                                                   EXCEPT !.outcome = "pending"])
                /\ run' = <<[held EXCEPT !.sent = held.sent + 1,
                                         !.at = Len(requests) + 1]>>
                /\ UNCHANGED <<jobs, pendingMove, saveError, saving>>
           ELSE /\ requests' = answered
                /\ jobs' = [i \in 1..Len(jobs) |-> Applied(held, jobs[i])]
                /\ pendingMove' = NoMove
                /\ saving' = FALSE
                /\ run' = <<>>
                /\ UNCHANGED saveError
    /\ UNCHANGED <<fetched, now, formVars, conflictDetails, cascadePreview,
                   showCascadeModal, durationEdited>>

\* executeReschedule from one await to the next: the answer to the request
\* in flight.  A refusal throws into the catch block; an acceptance sends the
\* next planned request or, after the last one, updates the job list and
\* clears pendingMove.  The finally block resets saving when the run ends.
runStep(ok) ==
    /\ run # <<>>
    /\ LET held == run[1]
           answered == [requests EXCEPT ![held.at].outcome = IF ok THEN "ok" ELSE "failed"]
       IN  IF ~ok
           THEN /\ requests' = answered
                /\ saveError' = "Unable to reschedule. Try again."
                /\ saving' = FALSE
                /\ run' = <<>>
                /\ UNCHANGED <<jobs, pendingMove>>
           ELSE IF held.sent < Len(held.planned)
           THEN /\ requests' = Append(answered, [held.planned[held.sent + 1]
                                                   EXCEPT !.outcome = "pending"])
                /\ run' = <<[held EXCEPT !.sent = held.sent + 1,
                                         !.at = Len(requests) + 1]>>
                /\ UNCHANGED <<jobs, pendingMove, saveError, saving>>
           ELSE /\ requests' = answered
                /\ jobs' = [i \in 1..Len(jobs) |-> Applied(held, jobs[i])]
                /\ pendingMove' = NoMove
                /\ saving' = FALSE
                /\ run' = <<>>
                /\ UNCHANGED saveError
    /\ UNCHANGED <<fetched, now, formVars, conflictDetails, cascadePreview,
                   showCascadeModal, durationEdited>>

\* handleRescheduleConfirm with executeReschedule in steps; the confirm button
\* is disabled while saving.
confirmStart ==
    LET cascade == calculateCascade(PM.job, nextStart, durationHours, jobs)
    IN  /\ HasMove
        /\ ~ModalOpen
        /\ ~saving
        /\ IF Len(cascade.changes) > 1 \/ Len(cascade.conflicts) > 0
           THEN /\ cascadePreview' = <<cascade>>
                /\ showCascadeModal' = TRUE
                /\ UNCHANGED <<pageVars, formVars, conflictDetails, saveError,
                               requests, durationEdited, saving, run>>
           ELSE startRun(FALSE)

\* "Confirm & Apply Changes" with executeReschedule in steps.
confirmCascadeStart ==
    /\ showCascadeModal
    /\ cascadePreview # <<>>
    /\ Len(cascadePreview[1].conflicts) = 0
    /\ startRun(TRUE)

\* ---------------------------------------------------------- moves in flight
\* handleDrop and handleOverrideConflict await their request; other gestures
\* and other responses may come in between.  A request that has been sent and
\* not answered has outcome "pending".
Pending(i) == requests[i].outcome = "pending"

\* The part of a move before the await: setSaveError(""), the optimistic update
\* and the request on its way.
SendMove(via, job, dateKey, time) ==
    LET updatedDateTime == formatLocalDateTime(DateOf(dateKey, time))
        request == Request(via, job, dateKey, time, job.hours, job.cleaningTeam,
                           TRUE, FALSE)
    IN  /\ requests' = Append(requests, [request EXCEPT !.outcome = "pending"])
        /\ jobs' = WithDate(jobs, job.id, updatedDateTime, updatedDateTime)
        /\ saveError' = ""

\* handleDrop up to its await.
dropStart(dateKey, job, dragOverMinutes) ==
    LET currentDateKey == toDateKey(parseJobDate(job))
        existingMinutes == getHours(parseJobDate(job)) * 60 + getMinutes(parseJobDate(job))
        snappedExistingMinutes == snapMinutes(existingMinutes)
        dropMinutes == IF dragOverMinutes # NoMinutes
                       THEN snapMinutes(START_HOUR * 60 + dragOverMinutes)
                       ELSE snappedExistingMinutes
        targetTimeValue == minutesToTime(dropMinutes)
        from == DateOf(dateKey, targetTimeValue)
        to == addMinutes(from, DurationMinutes(getDurationHours(job)))
        detectedConflicts == DetectConflicts(job.id, from, to, job.cleaningTeam)
    IN  /\ job \in Range(jobs)
        /\ Len(job.cleaningTeam) > 0
        /\ ~ModalOpen
        /\ IF currentDateKey = dateKey /\ dropMinutes = snappedExistingMinutes
           THEN /\ saveError' = "Drop cancelled: same time selected."
                /\ UNCHANGED <<jobs, conflictDetails, requests>>
           ELSE IF Len(detectedConflicts) > 0
           THEN /\ conflictDetails' = <<[conflicts |-> detectedConflicts,
                                         targetDate |-> dateKey,
                                         targetTime |-> targetTimeValue,
                                         job |-> job]>>
                /\ UNCHANGED <<jobs, saveError, requests>>
           ELSE /\ SendMove("drop", job, dateKey, targetTimeValue)
                /\ UNCHANGED conflictDetails
        /\ UNCHANGED <<fetched, now, pendingMove, formVars, cascadePreview,
                       showCascadeModal, durationEdited>>

\* handleOverrideConflict up to its await; the job is the record the conflict
\* dialog has held since the drop.
overrideStart ==
    /\ conflictDetails # <<>>
    /\ SendMove("override", conflictDetails[1].job, conflictDetails[1].targetDate,
                conflictDetails[1].targetTime)
    /\ conflictDetails' = <<>>
    /\ UNCHANGED <<fetched, now, pendingMove, formVars, cascadePreview,
                   showCascadeModal, durationEdited>>

\* The rest of a move once its response is in: nothing more when it is ok,
\* otherwise the catch block, which writes back the date and scheduledAt of
\* the record the handler held and sets the error message.
settleMove(i, ok) ==
    LET request == requests[i]
    IN  /\ Pending(i)
        /\ requests' = [requests EXCEPT ![i].outcome = IF ok THEN "ok" ELSE "failed"]
        /\ IF ok
           THEN UNCHANGED <<jobs, saveError>>
           ELSE /\ jobs' = WithDate(jobs, request.job.id, request.job.date,
                                    request.job.scheduledAt)
                /\ saveError' = IF request.via = "drop"
                                THEN "Reschedule failed. Please try again."
                                ELSE "Override failed. Please try again."
        /\ UNCHANGED <<fetched, now, pendingMove, formVars, conflictDetails,
                       cascadePreview, showCascadeModal, durationEdited>>

\* ------------------------------------------------------------------- inputs
Job(id, client, date, scheduledAt, hours, team) ==
    [id |-> id, client |-> client, date |-> date, scheduledAt |-> scheduledAt,
     hours |-> hours, cleaningTeam |-> team]

\* Jobs a fetched list is drawn from.
JobPool ==
    { Job(1, "Alice", Local(0, 540), Local(0, 540), 4, <<"Maria">>),
      Job(2, "Bob", Local(0, 600), Local(0, 600), 2, <<"Maria">>),
      Job(3, "Cara", DateOnly(0), Local(0, 690), 2, <<"Ana">>),
      Job(4, "Alice", DateOnly(1), NoValue, 0, <<"Ana", "Maria">>),
      Job(5, "Eve", MidnightZ(0), Local(0, 1380), 22, <<"Ana">>),
      Job(6, "Finn", NoValue, NoValue, 2, <<>>) }

Snapshots ==
    { SetToSeqById(S) : S \in { T \in SUBSET JobPool :
                                  Cardinality(T) >= 1 /\ Cardinality(T) <= MaxJobs } }

\* Readings of the clock: day 0 11:00 and day 1 08:00.
Clock == { 0 * DAY + 660, 1 * DAY + 480 }

\* timeOptions: START_HOUR:00 .. END_HOUR:00 in MIN_SLOT steps.
TimeOptions ==
    { minutesToTime(START_HOUR * 60 + k * MIN_SLOT) :
        k \in 0..(((END_HOUR - START_HOUR) * 60) \div MIN_SLOT) }

TargetDates == {0, 1}
FormTimes == { <<9, 0>>, <<11, 0>>, <<12, 0>> }
CrewInputs == {0, 2}
DurationInputs == {0, 3, 8}
TeamInputs == { <<"Maria">>, <<"Zoe", "", "Ana">> }

NoTrip == [crew |-> 0, duration |-> 0, stage |-> 0, requested |-> 1]

\* Single-job lists for the crew-size form: every duration up to MaxHalfHours
\* half-hours (0: no hours recorded) with every team size up to MaxCrew.
CrewNames == <<"Ana", "Maria", "Zoe", "Lena", "Ola">>
CrewJob(hours, size) ==
    Job(1, "Alice", NoValue, Local(0, 540), hours, SubSeq(CrewNames, 1, size))
CrewSnapshots ==
    { <<CrewJob(hours, size)>> : hours \in 0..MaxHalfHours, size \in 1..MaxCrew }
CrewSizes == -1..MaxCrew
CrewDurationInputs == {0, 5}
CrewTeamInputs == { <<"">>, <<"Ana", "Zoe">> }

\* Day lists handed to the layout: up to MaxLayoutJobs jobs with distinct ids.
LayoutStarts == {390, 540, 600, 690, 1200}
LayoutHours == {2, 4}
LayoutJob(i, start, hours) ==
    Job(i, "Client", NoValue, Local(0, start), hours, <<"Maria">>)
LayoutList(n, f) == [i \in 1..n |-> LayoutJob(i, f[i][1], f[i][2])]

\* ------------------------------------------------------------ specification
FormInit ==
    /\ pendingMove = NoMove
    /\ targetDate = EMPTY_DATE
    /\ targetTime = <<9, 0>>
    /\ teamInput = <<"">>
    /\ crewSize = 1
    /\ durationHours = 2 * FALLBACK_HOURS
    /\ autoAdjustDuration = TRUE
    /\ laborHours = 2 * FALLBACK_HOURS
    /\ shiftDownstream = FALSE
    /\ trip = NoTrip

NoCommit ==
    /\ conflictDetails = <<>>
    /\ cascadePreview = <<>>
    /\ showCascadeModal = FALSE
    /\ saveError = ""
    /\ requests = <<>>
    /\ durationEdited = FALSE
    /\ saving = FALSE
    /\ run = <<>>

NoLayout ==
    /\ layoutJobs = <<>>
    /\ rendered = FALSE
    /\ layoutClusters = <<>>
    /\ layoutResult = <<>>

\* The reschedule form over a fetched job list.
Init ==
    /\ jobs = <<>>
    /\ fetched = FALSE
    /\ now \in Clock
    /\ FormInit
    /\ NoCommit
    /\ NoLayout

Next ==
    /\ \/ \E list \in Snapshots : fetchData(list)
       \/ \E job \in Range(jobs) : openReschedule(job)
       \/ closePanel
       \/ \E value \in TargetDates : setTargetDate(value)
       \/ \E value \in FormTimes : setTargetTime(value)
       \/ \E checked \in BOOLEAN : setShiftDownstream(checked)
       \/ \E value \in CrewInputs : handleCrewSizeChange(value)
       \/ \E value \in DurationInputs : handleDurationChange(value)
       \/ handleAutoAdjustToggle
       \/ \E value \in TeamInputs : handleTeamInputChange(value)
    /\ UNCHANGED <<trip, commitVars, layoutVars>>

Spec == Init /\ [][Next]_vars

\* The day layout applied to every bounded job list.
renderDay ==
    /\ ~rendered
    /\ rendered' = TRUE
    /\ layoutClusters' = LayoutClusters(LayoutEvents(layoutJobs))
    /\ layoutResult' = layoutDayJobs(layoutJobs)
    /\ UNCHANGED <<layoutJobs, pageVars, formVars, trip, commitVars>>

LayoutInit ==
    /\ jobs = <<>>
    /\ fetched = FALSE
    /\ now = 660
    /\ FormInit
    /\ NoCommit
    /\ \E n \in 0..MaxLayoutJobs :
          \E f \in [1..n -> LayoutStarts \X LayoutHours] :
              layoutJobs = LayoutList(n, f)
    /\ rendered = FALSE
    /\ layoutClusters = <<>>
    /\ layoutResult = <<>>

LayoutNext == renderDay

LayoutSpec == LayoutInit /\ [][LayoutNext]_vars

\* The day layout applied to lists of short, closely spaced jobs.
ShortStarts == {540, 570, 600, 1200}
ShortHours == {1, 2}

ShortLayoutInit ==
    /\ jobs = <<>>
    /\ fetched = FALSE
    /\ now = 660
    /\ FormInit
    /\ NoCommit
    /\ \E n \in 0..MaxShortJobs :
          \E f \in [1..n -> ShortStarts \X ShortHours] :
              layoutJobs = LayoutList(n, f)
    /\ rendered = FALSE
    /\ layoutClusters = <<>>
    /\ layoutResult = <<>>

ShortLayoutSpec == ShortLayoutInit /\ [][LayoutNext]_vars

\* The crew-size form over single-job lists.  trip records a crew-size round
\* trip made with auto-adjust on: stage 1 after a change away from trip.crew
\* (trip.duration being the duration before it), stage 2 once the next change
\* has returned to trip.crew; stage 3 after a change made with auto-adjust off
\* (trip.crew and trip.duration being the values before it).
\* trip.requested is the crew size the last change asked for.
TripAfterCrewChange(value) ==
    IF ~autoAdjustDuration
    THEN [crew |-> crewSize, duration |-> durationHours, stage |-> 3,
          requested |-> value]
    ELSE IF trip.stage = 1 /\ crewSize # trip.crew /\ crewSize' = trip.crew
         THEN [trip EXCEPT !.stage = 2, !.requested = value]
         ELSE IF crewSize' # crewSize
              THEN [crew |-> crewSize, duration |-> durationHours, stage |-> 1,
                    requested |-> value]
              ELSE NoTrip

CrewInit ==
    /\ jobs = <<>>
    /\ fetched = FALSE
    /\ now = 660
    /\ FormInit
    /\ NoCommit
    /\ NoLayout

CrewNext ==
    /\ \/ /\ \E list \in CrewSnapshots : fetchData(list)
          /\ trip' = NoTrip
       \/ /\ \E job \in Range(jobs) : openReschedule(job)
          /\ trip' = NoTrip
       \/ /\ closePanel
          /\ trip' = NoTrip
       \/ \E value \in CrewSizes :
              /\ handleCrewSizeChange(value)
              /\ trip' = TripAfterCrewChange(value)
       \/ /\ \E value \in CrewDurationInputs : handleDurationChange(value)
          /\ trip' = NoTrip
       \/ /\ handleAutoAdjustToggle
          /\ trip' = NoTrip
       \/ /\ \E value \in CrewTeamInputs : handleTeamInputChange(value)
          /\ trip' = NoTrip
    /\ UNCHANGED <<commitVars, layoutVars>>

CrewSpec == CrewInit /\ [][CrewNext]_vars

\* The page with its persistence handlers: drops, overrides, the confirm
\* button and the cascade preview, over job lists that include records
\* without hours and without a start.
CommitPool ==
    { Job(1, "Alice", Local(0, 540), Local(0, 540), 4, <<"Maria">>),
      Job(2, "Bob", Local(0, 600), Local(0, 600), 2, <<"Maria">>),
      Job(3, "Cara", DateOnly(0), Local(0, 690), 2, <<"Ana">>),
      Job(8, "Dana", DateOnly(0), Local(0, 780), 0, <<"Ana", "Maria">>),
      Job(7, "Gus", NoValue, NoValue, 0, <<"Zoe">>),
      Job(9, "Alice", Local(0, 720), Local(0, 720), 2, <<"Zoe">>) }
CommitSnapshots ==
    { SetToSeqById({j \in CommitPool : j.id \in ids}) :
        ids \in { {1, 2, 3}, {1, 3, 8}, {3, 7}, {1, 2, 9} } }
DropMinutes == { NoMinutes, 120, 270 }
CommitTimes == { <<9, 0>>, <<11, 0>> }
CommitDurations == { 8 }

CommitInit ==
    /\ jobs = <<>>
    /\ fetched = FALSE
    /\ now = 660
    /\ FormInit
    /\ NoCommit
    /\ NoLayout

\* A step of the reschedule form, available while no modal covers it.
FormStep ==
    /\ ~ModalOpen
    /\ \/ /\ \E job \in Range(jobs) : openReschedule(job)
          /\ durationEdited' = FALSE
       \/ /\ closePanel
          /\ UNCHANGED durationEdited
       \/ /\ \E value \in TargetDates : setTargetDate(value)
          /\ UNCHANGED durationEdited
       \/ /\ \E value \in CommitTimes : setTargetTime(value)
          /\ UNCHANGED durationEdited
       \/ /\ \E value \in CommitDurations : handleDurationChange(value)
          /\ durationEdited' = TRUE
    /\ UNCHANGED <<conflictDetails, cascadePreview, showCascadeModal, saveError,
                   requests>>

\* Runs are followed up to MaxAttempts attempts to persist.
CommitNext ==
    /\ Attempts < MaxAttempts
    /\ \/ /\ \E list \in CommitSnapshots : fetchData(list)
          /\ UNCHANGED commitVars
       \/ FormStep
       \/ \E dateKey \in TargetDates : \E job \in Range(jobs) :
              \E minutes \in DropMinutes : handleDrop(dateKey, job, minutes)
       \/ handleOverrideConflict
       \/ closeConflictModal
       \/ handleRescheduleConfirm
       \/ confirmCascade
       \/ closeCascadeModal
    /\ UNCHANGED <<trip, layoutVars, saving, run>>

CommitSpec == CommitInit /\ [][CommitNext]_vars

\* Drags, drops and overrides with their requests in flight: at most MaxMoves
\* requests are sent, and the responses arrive in any order.
FlightNext ==
    /\ \/ /\ \E list \in CommitSnapshots : fetchData(list)
          /\ UNCHANGED commitVars
       \/ /\ Len(requests) < MaxMoves
          /\ \E dateKey \in TargetDates : \E job \in Range(jobs) :
                \E minutes \in DropMinutes : dropStart(dateKey, job, minutes)
       \/ /\ Len(requests) < MaxMoves
          /\ overrideStart
       \/ closeConflictModal
       \/ \E i \in 1..Len(requests) : \E ok \in BOOLEAN : settleMove(i, ok)
    /\ UNCHANGED <<trip, layoutVars, saving, run>>

FlightSpec == CommitInit /\ [][FlightNext]_vars

\* The request a run awaits is answered.
answerRun ==
    /\ \E ok \in BOOLEAN : runStep(ok)
    /\ UNCHANGED <<trip, layoutVars>>

\* The reschedule form with executeReschedule in steps.  A run works on the
\* values it took when it started, so of the gestures possible between two
\* awaits only closing the panel is followed.  At most MaxAttempts runs are
\* started.
SaveNext ==
    /\ \/ /\ \E list \in CommitSnapshots : fetchData(list)
          /\ UNCHANGED commitVars
       \/ /\ Attempts < MaxAttempts
          /\ ~saving
          /\ FormStep
          /\ UNCHANGED <<saving, run>>
       \/ /\ saving
          /\ closePanel
          /\ UNCHANGED commitVars
       \/ /\ Attempts < MaxAttempts
          /\ confirmStart
       \/ /\ Attempts < MaxAttempts
          /\ confirmCascadeStart
       \/ /\ closeCascadeModal
          /\ UNCHANGED <<saving, run>>
       \/ answerRun
    /\ UNCHANGED <<trip, layoutVars>>

SaveSpec == CommitInit /\ [][SaveNext]_vars

\* Every request of a run is answered in the end, by a response or by a
\* network error, and the run then continues.
SaveLiveSpec == SaveSpec /\ WF_vars(answerRun)

\* The form and the renders that follow its steps, over job lists in id order
\* and in reverse id order.
Reverse(s) == [i \in 1..Len(s) |-> s[Len(s) + 1 - i]]
RenderSnapshots == Snapshots \cup {Reverse(list) : list \in Snapshots}

RenderNext ==
    /\ \/ /\ \/ \E list \in RenderSnapshots : fetchData(list)
             \/ \E job \in Range(jobs) : openReschedule(job)
             \/ closePanel
             \/ \E value \in TargetDates : setTargetDate(value)
             \/ \E value \in CommitTimes : setTargetTime(value)
             \/ \E checked \in BOOLEAN : setShiftDownstream(checked)
          /\ rendered' = FALSE
          /\ UNCHANGED <<layoutJobs, layoutClusters, layoutResult>>
       \/ \E dateKey \in TargetDates : renderCalendar(dateKey)
    /\ UNCHANGED <<trip, commitVars>>

RenderSpec == Init /\ [][RenderNext]_vars

\* ===================================================================== claims
\* Siblings of the pending move, and what the claims say about them.
Siblings == {job \in Range(jobs) : job.id # PM.job.id}
SameDayAsProposed(job) == toDateKey(parseJobDate(job)) = toDateKey(nextStart)
HalfOpenOverlap(job) == nextStart < JobEnd(job) /\ parseJobDate(job) < nextEnd
ConflictsWith(job) == {i \in 1..Len(conflicts) : conflicts[i].job.id = job.id}
SharesName(job) == Range(TeamList(teamInput)) \cap Range(job.cleaningTeam) # {}

\* C1: for the placement under edit and every sibling that starts on the
\* proposed start's day, the conflict list names the sibling exactly when
\* candidateStart < siblingEnd and siblingStart < candidateEnd; a sibling that
\* only touches the candidate at an endpoint is not named.
C1_HalfOpenConflicts ==
    HasMove =>
        \A job \in Siblings :
            SameDayAsProposed(job) =>
                /\ (ConflictsWith(job) # {}) <=> HalfOpenOverlap(job)
                /\ (JobEnd(job) = nextStart \/ parseJobDate(job) = nextEnd)
                       => ConflictsWith(job) = {}

C1_Witness ==
    /\ HasMove
    /\ \E job \in Siblings :
          /\ SameDayAsProposed(job)
          /\ JobEnd(job) = nextStart \/ parseJobDate(job) = nextEnd
          /\ ConflictsWith(job) = {}
    /\ \E job \in Siblings : ConflictsWith(job) # {}

\* C2: every overlapping same-day sibling has exactly one conflict; it is a
\* team conflict when the proposed team and the sibling's team share a name
\* and a time conflict when they share none.  Alice (09:00, 2h, [Maria])
\* against Bob (10:00, 1h, [Maria]) gives exactly one team conflict for Bob.
C2_OneClassifiedConflict ==
    HasMove =>
        \A job \in Siblings :
            (SameDayAsProposed(job) /\ HalfOpenOverlap(job)) =>
                /\ Cardinality(ConflictsWith(job)) = 1
                /\ \A i \in ConflictsWith(job) :
                      /\ conflicts[i].reason.kind =
                            (IF SharesName(job) THEN "Team" ELSE "Time")
                      /\ conflicts[i].reason.client = job.client

ScenarioMariaTwice ==
    /\ HasMove
    /\ PM.job.id = 1
    /\ nextStart = 540
    /\ durationHours = 4
    /\ TeamList(teamInput) = <<"Maria">>
    /\ \E job \in Siblings : job.id = 2

C2_Witness ==
    /\ ScenarioMariaTwice
    /\ \E i \in 1..Len(conflicts) :
          conflicts[i].job.id = 2 /\ conflicts[i].reason.kind = "Team"
    /\ Cardinality({i \in 1..Len(conflicts) : conflicts[i].job.id = 2}) = 1

\* A witness of the time-conflict branch and of a partly shared team.
C2_WitnessKinds ==
    /\ HasMove
    /\ \E i \in 1..Len(conflicts) : conflicts[i].reason.kind = "Time"
    /\ \E i \in 1..Len(conflicts) :
          /\ conflicts[i].reason.kind = "Team"
          /\ Range(conflicts[i].job.cleaningTeam) # Range(TeamList(teamInput))

\* C3: whenever the primary's deltaMinutes is zero or negative the list of
\* downstream changes is empty, whatever the job list holds.
C3_NoCascadeBackward ==
    (HasMove /\ deltaMinutes <= 0) => shiftedDownstream = <<>>

C3_Witness ==
    /\ HasMove
    /\ deltaMinutes < 0
    /\ shiftDownstream
    /\ Len(downstreamJobs) > 0

\* The start a downstream change gives its job.
NewStartOf(shift) == DateOf(shift.newDate, shift.newTime)

\* The siblings queued behind the primary: on its original day, starting at
\* or after its original end.
QueuedBehind ==
    {job \in Siblings :
        /\ toDateKey(parseJobDate(job)) = toDateKey(originalStart)
        /\ parseJobDate(job) >= originalEnd}

ExactlyQueuedBehindShifted ==
    /\ {shiftedDownstream[i].job : i \in 1..Len(shiftedDownstream)} = QueuedBehind
    /\ Len(shiftedDownstream) = Cardinality(QueuedBehind)
    /\ \A i \in 1..Len(shiftedDownstream) :
          /\ shiftedDownstream[i].job.id # PM.job.id
          /\ NewStartOf(shiftedDownstream[i]) =
                parseJobDate(shiftedDownstream[i].job) + deltaMinutes
          /\ shiftedDownstream[i].job \in Range(jobs)

ScenarioAliceToEleven ==
    /\ HasMove
    /\ PM.job.id = 1
    /\ originalEnd = 660
    /\ nextStart = 660
    /\ nextEnd = 780
    /\ shiftDownstream
    /\ \E job \in Siblings : job.id = 3 /\ parseJobDate(job) = 690

ShiftedStartOf(id) ==
    {NewStartOf(shiftedDownstream[i]) :
        i \in {k \in 1..Len(shiftedDownstream) : shiftedDownstream[k].job.id = id}}

\* C5 as claimed: the move gives deltaMinutes = +180 and Cara starts at 14:30.
C5_Claimed ==
    ScenarioAliceToEleven =>
        /\ deltaMinutes = 180
        /\ ShiftedStartOf(3) = {14 * 60 + 30}

\* C5 amended: moving Alice, whose original end was 11:00, to start at 11:00
\* and end at 13:00 gives deltaMinutes = +120, and Cara (originally 11:30 for
\* 1h on the same day) is shifted to start at 13:30, with a reason that cites
\* Alice, the moved job's client.
C5_AliceToEleven ==
    ScenarioAliceToEleven =>
        /\ deltaMinutes = 120
        /\ shiftMinutes = 120
        /\ ShiftedStartOf(3) = {13 * 60 + 30}
        /\ LET cascade == calculateCascade(PM.job, nextStart, durationHours, jobs)
           IN  \E i \in 2..Len(cascade.changes) :
                  /\ cascade.changes[i].job.id = 3
                  /\ cascade.changes[i].newStart = 13 * 60 + 30
                  /\ cascade.changes[i].reason.client = PM.job.client

C5_Witness ==
    /\ ScenarioAliceToEleven
    /\ ShiftedStartOf(3) # {}

\* C6: every downstream change starts its job strictly later than the job
\* started in the job list; no downstream change moves a job earlier.
C6_CascadeOnlyLater ==
    \A i \in 1..Len(shiftedDownstream) :
        NewStartOf(shiftedDownstream[i]) > parseJobDate(shiftedDownstream[i].job)

C6_Witness ==
    /\ Len(shiftedDownstream) > 0
    /\ \E i \in 1..Len(shiftedDownstream) :
          shiftedDownstream[i].newDate # toDateKey(parseJobDate(shiftedDownstream[i].job))

\* ------------------------------------------------------------ layout claims
\* The normalised events of the rendered list, and where the result put them.
LayoutEventSet == {EventOf(layoutJobs[i]) : i \in 1..Len(layoutJobs)}
EventsOverlap(a, b) == a.start < b.end /\ b.start < a.end
ClustersOf(id) ==
    {c \in 1..Len(layoutClusters) :
        \E i \in 1..Len(layoutClusters[c]) : layoutClusters[c][i].job.id = id}
SlotsOf(id) == {i \in 1..Len(layoutResult) : layoutResult[i].job.id = id}
ColumnIndexOf(id) == {layoutResult[i].left[1] : i \in SlotsOf(id)}
ColumnCountOf(id) == {layoutResult[i].width[2] : i \in SlotsOf(id)}
ClusterEvents(c) == Range(layoutClusters[c])

\* C7: within one cluster, two jobs whose normalised ranges [start, end)
\* overlap never have the same column index.
C7_NoSharedColumn ==
    rendered =>
        \A c \in 1..Len(layoutClusters) :
            \A a, b \in ClusterEvents(c) :
                (a.job.id # b.job.id /\ EventsOverlap(a, b)) =>
                    /\ ColumnIndexOf(a.job.id) # {}
                    /\ ColumnIndexOf(a.job.id) \cap ColumnIndexOf(b.job.id) = {}

\* Overlapping jobs side by side, a column reused, equal starts, a span
\* extended to the MIN_SLOT floor.
C7_Witness ==
    /\ rendered
    /\ \E c \in 1..Len(layoutClusters) :
          /\ \E a, b \in ClusterEvents(c) :
                a.job.id # b.job.id /\ EventsOverlap(a, b) /\ a.start = b.start
          /\ \E a, b \in ClusterEvents(c) :
                /\ a.job.id # b.job.id
                /\ ~EventsOverlap(a, b)
                /\ ColumnIndexOf(a.job.id) = ColumnIndexOf(b.job.id)
    /\ \E e \in LayoutEventSet : e.end > totalMinutes

\* The largest number of a cluster's events active at one instant; the
\* instants that matter are the events' starts.
MaxActive(c) ==
    LET ActiveAt(t) == Cardinality({e \in ClusterEvents(c) : e.start <= t /\ t < e.end})
    IN  CHOOSE n \in 0..Len(layoutClusters[c]) :
            /\ \E e \in ClusterEvents(c) : ActiveAt(e.start) = n
            /\ \A e \in ClusterEvents(c) : ActiveAt(e.start) <= n

\* C8: the column count every job of a cluster carries is the largest number
\* of that cluster's jobs active at one instant.  A(9-11), B(10-12),
\* C(11:30-12:30) form one cluster of two columns.
C8_ColumnCountIsMaxActive ==
    rendered =>
        \A c \in 1..Len(layoutClusters) :
            \A e \in ClusterEvents(c) : ColumnCountOf(e.job.id) = {MaxActive(c)}

ScenarioThreeJobs ==
    /\ rendered
    /\ Len(layoutJobs) = 3
    /\ \E i \in 1..3 : EventOf(layoutJobs[i]).start = 120 /\ EventOf(layoutJobs[i]).end = 240
    /\ \E i \in 1..3 : EventOf(layoutJobs[i]).start = 180 /\ EventOf(layoutJobs[i]).end = 300
    /\ \E i \in 1..3 : EventOf(layoutJobs[i]).start = 270 /\ EventOf(layoutJobs[i]).end = 330

C8_Witness ==
    /\ ScenarioThreeJobs
    /\ Len(layoutClusters) = 1
    /\ \A i \in 1..Len(layoutResult) : layoutResult[i].width = <<1, 2>>

RECURSIVE Component(_, _)
\* The events linked to S by chains of pairwise overlaps within E.
Component(E, S) ==
    LET T == S \cup {e \in E : \E x \in S : EventsOverlap(e, x)}
    IN  IF T = S THEN S ELSE Component(E, T)

\* C9: the clusters are the connected components of the overlap graph of the
\* normalised intervals: every job is in one cluster, two jobs share a cluster
\* exactly when a chain of pairwise-overlapping jobs links them, and jobs of
\* different clusters do not overlap.
C9_ClustersAreComponents ==
    rendered =>
        /\ \A e \in LayoutEventSet : Cardinality(ClustersOf(e.job.id)) = 1
        /\ \A a, b \in LayoutEventSet :
              /\ (ClustersOf(a.job.id) = ClustersOf(b.job.id))
                     <=> (b \in Component(LayoutEventSet, {a}))
              /\ (ClustersOf(a.job.id) # ClustersOf(b.job.id)) => ~EventsOverlap(a, b)

\* Two clusters, one of them holding a pair linked only through a third job.
C9_Witness ==
    /\ rendered
    /\ Len(layoutClusters) >= 2
    /\ \E a, b \in LayoutEventSet :
          /\ a.job.id # b.job.id
          /\ ClustersOf(a.job.id) = ClustersOf(b.job.id)
          /\ ~EventsOverlap(a, b)

\* ------------------------------------------------------------- crew claims
\* C10: a crew change N to M followed by the change M back to N, auto-adjust
\* on, leaves a duration within 0.5h (one half-hour) of the duration before
\* the first change.
C10_RoundTrip ==
    trip.stage = 2 =>
        /\ durationHours - trip.duration <= 1
        /\ trip.duration - durationHours <= 1

\* Labor-hours of the job under edit as recorded: duration x crew size.
OriginalLabor == getDurationHours(PM.job) * OriginalCrew(PM.job)

\* A step of the crew-size field made with auto-adjust on.
CrewStep(value) == HasMove /\ autoAdjustDuration /\ handleCrewSizeChange(value)

\* C11: every crew-size change made with auto-adjust on resolves the duration
\* to (original duration x original crew) / max(1, new crew), rounded to the
\* nearest half hour and raised to at least one half hour.
C11_ResolvedFromOriginal ==
    [][\A value \in CrewSizes :
          CrewStep(value) =>
              durationHours' = Max(1, RoundDiv(OriginalLabor, Max(1, value)))]_vars

\* C12: a crew-size change made with auto-adjust on, starting from labor-hours
\* equal to original duration x original crew, leaves the tracked labor-hours
\* at that value.
C12_LaborConserved ==
    [][\A value \in CrewSizes :
          (CrewStep(value) /\ laborHours = OriginalLabor) =>
              laborHours' = OriginalLabor]_vars

\* ------------------------------------------------ cascade claims, continued
\* Where a job of the list stands once the placement under edit and the
\* downstream shifts are applied: its start and end in minutes.
ShiftsOf(job) == {i \in 1..Len(shiftedDownstream) : shiftedDownstream[i].job.id = job.id}
PlaceBefore(job) == [start |-> parseJobDate(job), end |-> JobEnd(job)]
PlaceAfter(job) ==
    IF job.id = PM.job.id THEN [start |-> nextStart, end |-> nextEnd]
    ELSE IF ShiftsOf(job) # {}
         THEN LET shift == shiftedDownstream[CHOOSE i \in ShiftsOf(job) : TRUE]
              IN  [start |-> NewStartOf(shift),
                   end |-> addMinutes(NewStartOf(shift),
                                      DurationMinutes(getDurationHours(job)))]
         ELSE PlaceBefore(job)
PlacesOverlap(a, b) == a.start < b.end /\ b.start < a.end

\* C16: with the primary change and the downstream shifts applied, no shifted
\* job overlaps the primary's new interval, and no shifted job overlaps
\* another job of the list that it did not overlap before.
C16_ShiftsConflictFree ==
    HasMove =>
        \A i \in 1..Len(shiftedDownstream) :
            LET moved == shiftedDownstream[i].job
            IN  /\ ~PlacesOverlap(PlaceAfter(moved), PlaceAfter(PM.job))
                /\ \A other \in Siblings :
                      (other.id # moved.id
                       /\ PlacesOverlap(PlaceAfter(moved), PlaceAfter(other)))
                          => PlacesOverlap(PlaceBefore(moved), PlaceBefore(other))

\* C17: every downstream change leaves its job on the calendar day the job
\* was on.
C17_ShiftsStayOnDay ==
    \A i \in 1..Len(shiftedDownstream) :
        shiftedDownstream[i].newDate =
            toDateKey(parseJobDate(shiftedDownstream[i].job))

\* C18: the conflict list holds neither the moved job nor a job whose start
\* is on a day other than the proposed start's day.
C18_NoSelfNoOtherDay ==
    HasMove =>
        \A i \in 1..Len(conflicts) :
            /\ conflicts[i].job.id # PM.job.id
            /\ toDateKey(parseJobDate(conflicts[i].job)) = toDateKey(nextStart)

\* The moved job's own record overlaps the proposed interval, and a sibling
\* that started the day before is still under way in it.
C18_Witness ==
    /\ HasMove
    /\ \E job \in Range(jobs) :
          job.id = PM.job.id /\ Overlap(job, nextStart, nextEnd)
    /\ \E job \in Siblings :
          /\ ~SameDayAsProposed(job)
          /\ HalfOpenOverlap(job)

\* ------------------------------------------------- layout claims, continued
\* Extents of two positioned jobs: vertical [top, top + height), horizontal
\* [left, left + width) with left = columnIndex / columnCount.
VerticalIntersect(a, b) == a.top < b.top + b.height /\ b.top < a.top + a.height
HorizontalDisjoint(a, b) ==
    \/ (a.left[1] + 1) * b.left[2] <= b.left[1] * a.left[2]
    \/ (b.left[1] + 1) * a.left[2] <= a.left[1] * b.left[2]

\* C20: two positioned jobs of the layout's result whose vertical extents
\* intersect have disjoint horizontal extents.
C20_NoCollision ==
    rendered =>
        \A i, k \in 1..Len(layoutResult) :
            (i # k /\ VerticalIntersect(layoutResult[i], layoutResult[k]))
                => HorizontalDisjoint(layoutResult[i], layoutResult[k])

\* ---------------------------------------------------------- commit claims
\* A job record without a start (neither scheduledAt nor date) or without a
\* positive hours value.
LacksStartOrHours(job) ==
    \/ job.hours <= 0
    \/ job.scheduledAt.kind = "none" /\ job.date.kind = "none"

\* C13: no conflict list, no cascade and no reschedule request is produced
\* for a job whose record lacks a start or a positive duration.
C13_Rejected ==
    /\ conflictDetails # <<>> => ~LacksStartOrHours(conflictDetails[1].job)
    /\ cascadePreview # <<>> => ~LacksStartOrHours(cascadePreview[1].changes[1].job)
    /\ \A i \in 1..Len(requests) : ~LacksStartOrHours(requests[i].job)

\* C14: a request for a job that has no hours, sent without the duration
\* having been edited in the form, carries no hours value.
C14_FallbackNotSent ==
    \A i \in 1..Len(requests) :
        (requests[i].job.hours = 0 /\ ~requests[i].edited) => requests[i].hours = 0

\* C15: of the requests of one confirm-and-apply attempt (the primary change
\* and its cascaded changes), either all were persisted or none was.
C15_AllOrNothing ==
    \A i, k \in 1..Len(requests) :
        (/\ requests[i].attempt = requests[k].attempt
         /\ requests[i].via \in {"confirm", "cascade"}
         /\ requests[k].via \in {"confirm", "cascade"})
            => (requests[i].outcome = "ok" <=> requests[k].outcome = "ok")

\* The siblings whose interval in the job list overlaps, half-open, the new
\* interval of the previewed primary change, and start on its new day.
PreviewPrimary == cascadePreview[1].changes[1]
PreviewNewEnd ==
    addMinutes(PreviewPrimary.newStart, DurationMinutes(PreviewPrimary.newDuration))
OverlappedAtNewPlacement ==
    {job \in Range(jobs) :
        /\ job.id # PreviewPrimary.job.id
        /\ toDateKey(parseJobDate(job)) = toDateKey(PreviewPrimary.newStart)
        /\ parseJobDate(job) < PreviewNewEnd
        /\ JobEnd(job) > PreviewPrimary.newStart}

C21_OneSlotPerJob ==
    rendered =>
        /\ Len(layoutResult) = Len(layoutJobs)
        /\ \A i \in 1..Len(layoutJobs) : Cardinality(SlotsOf(layoutJobs[i].id)) = 1
        /\ \A i \in 1..Len(layoutResult) : layoutResult[i].job \in Range(layoutJobs)

\* A list with a job that starts before the displayed hours, one that starts
\* at their end, and two with equal starts, laid out in several clusters.
C21_Witness ==
    /\ rendered
    /\ Len(layoutJobs) >= 3
    /\ Len(layoutClusters) >= 2
    /\ \E i \in 1..Len(layoutJobs) :
          getHours(parseJobDate(layoutJobs[i])) < START_HOUR
    /\ \E i \in 1..Len(layoutJobs) :
          getHours(parseJobDate(layoutJobs[i])) > END_HOUR
    /\ \E i, k \in 1..Len(layoutJobs) :
          i # k /\ parseJobDate(layoutJobs[i]) = parseJobDate(layoutJobs[k])

\* ------------------------------------------------- crew claims, continued
\* C22: after a crew-size change made with auto-adjust off, the duration is
\* the one held before the change and the labor-hours are that duration
\* times the new crew size.
C22_ManualKeepsDuration ==
    trip.stage = 3 =>
        /\ durationHours = trip.duration
        /\ laborHours = durationHours * crewSize

\* Such a change to a crew size other than the team's and other than the one
\* held before, on a form whose labor-hours then differ from the job's.
C22_Witness ==
    /\ trip.stage = 3
    /\ HasMove
    /\ crewSize # trip.crew
    /\ crewSize # OriginalCrew(PM.job)
    /\ laborHours # OriginalLabor

\* C23: the form's crew size is at least 1 in every state; a change that
\* asked for a crew size of zero or less left crew size 1 and set no error.
C23_CrewAtLeastOne ==
    /\ crewSize >= 1
    /\ (trip.stage # 0 /\ trip.requested <= 0) =>
          /\ crewSize = 1
          /\ saveError = ""

\* A crew of more than one brought to 1 by a request for zero or less.
C23_Witness ==
    /\ HasMove
    /\ trip.stage # 0
    /\ trip.requested <= 0
    /\ trip.crew > 1
    /\ crewSize = 1

\* ------------------------------------------------------------ purity claims
\* A list in start order.
InStartOrder(list) ==
    \A i \in 1..(Len(list) - 1) : parseJobDate(list[i]) <= parseJobDate(list[i + 1])

\* C24: a render (conflicts, downstream jobs, day layout) leaves the job list
\* as it was, the same jobs in the same order with the same fields, and
\* leaves the day list it laid out as jobsByDate built it.
C24_InputsUntouched ==
    [][(rendered' /\ ~rendered) =>
          /\ jobs' = jobs
          /\ \E dateKey \in TargetDates : layoutJobs' = DayJobs(dateKey)]_vars

\* A render with a move pending whose conflict list and downstream list are
\* not empty, over a job list and a day list that are not in start order.
C24_Witness ==
    /\ rendered
    /\ HasMove
    /\ Len(conflicts) > 0
    /\ Len(downstreamJobs) > 0
    /\ ~InStartOrder(jobs)
    /\ ~InStartOrder(layoutJobs)
    /\ Len(layoutResult) = Len(layoutJobs)

\* C25: the affected clients of a previewed cascade are exactly the client
\* labels of its primary change and of its downstream changes, and no label
\* appears twice, also when one client owns several of the changed jobs.
C25_AffectedClientsOnce ==
    cascadePreview # <<>> =>
        LET cascade == cascadePreview[1]
            names == SeqMap(LAMBDA entry : entry.name, cascade.affectedClients)
        IN  /\ Range(names) = {change.job.client : change \in Range(cascade.changes)}
            /\ \A i, k \in 1..Len(names) : i # k => names[i] # names[k]

\* A previewed cascade in which one client owns two of the changed jobs.
C25_Witness ==
    /\ cascadePreview # <<>>
    /\ \E i, k \in 1..Len(cascadePreview[1].changes) :
          /\ i < k
          /\ cascadePreview[1].changes[i].job.client
                = cascadePreview[1].changes[k].job.client
    /\ Len(cascadePreview[1].affectedClients) < Len(cascadePreview[1].changes)

\* The request a step has just sent, and the interval it places its job at.
SentNow == requests'[Len(requests')]
SentFrom == DateOf(SentNow.date, SentNow.startTime)
SentTo == addMinutes(SentFrom, DurationMinutes(getDurationHours(SentNow.job)))

\* C26: a drop whose placement overlaps another job changes neither the job
\* list nor the requests sent, it only opens the conflict dialog; while the
\* dialog is open the only step that sends a request or changes the job list
\* is the override, and closing the dialog leaves the job list as it was.
C26_ConflictsOnlyInform ==
    [][ /\ (conflictDetails = <<>> /\ conflictDetails' # <<>>) =>
              (jobs' = jobs /\ requests' = requests)
        /\ (Len(requests') > Len(requests) /\ SentNow.via = "drop") =>
              ~\E other \in Range(jobs) :
                   other.id # SentNow.job.id /\ Overlap(other, SentFrom, SentTo)
        /\ conflictDetails # <<>> =>
              \/ jobs' = jobs /\ requests' = requests
              \/ /\ Len(requests') = Len(requests) + 1
                 /\ SentNow.via = "override"
                 /\ SentNow.job = conflictDetails[1].job
                 /\ conflictDetails' = <<>> ]_vars

\* The conflict dialog is open after a drop onto an occupied slot, with the
\* dragged job still where it was and nothing sent.
C26_Witness ==
    /\ conflictDetails # <<>>
    /\ Len(conflictDetails[1].conflicts) > 0
    /\ conflictDetails[1].job \in Range(jobs)
    /\ requests = <<>>

\* A step in which the reschedule form sends its primary request.
FormSends ==
    /\ Len(requests') > Len(requests)
    /\ requests'[Len(requests) + 1].via = "confirm"

\* The cascade handleRescheduleConfirm computes for the form as it stands.
FormCascade == calculateCascade(PM.job, nextStart, durationHours, jobs)
NeedsPreview == Len(FormCascade.changes) > 1 \/ Len(FormCascade.conflicts) > 0

\* C27: while the form's cascade has more than one change or a conflict, the
\* form sends nothing until the preview is confirmed; a preview with a
\* conflict cannot be confirmed, so the form never sends a placement that
\* overlaps another job.
C27_PreviewBeforeRequest ==
    [][ /\ (HasMove /\ ~ModalOpen /\ NeedsPreview) => ~FormSends
        /\ FormSends =>
              /\ \/ ~ModalOpen /\ ~NeedsPreview
                 \/ /\ showCascadeModal
                    /\ cascadePreview # <<>>
                    /\ Len(cascadePreview[1].conflicts) = 0
              /\ ~\E other \in Range(jobs) :
                    /\ other.id # PM.job.id
                    /\ Overlap(other, nextStart, nextEnd) ]_vars

\* The preview is open on a placement that overlaps another job, and nothing
\* has been sent.
C27_Witness ==
    /\ showCascadeModal
    /\ cascadePreview # <<>>
    /\ Len(cascadePreview[1].conflicts) > 0
    /\ requests = <<>>

\* The form has sent a cascade after its preview was confirmed.
C27_Confirmed ==
    /\ cascadePreview # <<>>
    /\ \E i \in 1..Len(requests) : requests[i].via = "cascade"

\* The request of a drop or of an override that this step sees refused.
RefusedNow(i) ==
    /\ requests[i].outcome = "pending"
    /\ requests'[i].outcome = "failed"
    /\ requests[i].via \in {"drop", "override"}

\* C28: when the request of a drop or of an override fails, the moved job has
\* again the date and scheduledAt the job list showed before that move, every
\* other job is as it was, and the error message of that gesture is set.
C28_FailedMoveRestored ==
    [][ \A i \in 1..Len(requests) : RefusedNow(i) =>
          /\ Len(jobs') = Len(jobs)
          /\ \A k \in 1..Len(jobs) :
                IF jobs[k].id = requests[i].job.id
                THEN /\ jobs'[k].date = requests[i].shown.date
                     /\ jobs'[k].scheduledAt = requests[i].shown.scheduledAt
                ELSE jobs'[k] = jobs[k]
          /\ saveError' = IF requests[i].via = "drop"
                          THEN "Reschedule failed. Please try again."
                          ELSE "Override failed. Please try again." ]_vars


\* The requests sent for one job, and those of them that succeeded.
MovesOf(id) == {i \in 1..Len(requests) : requests[i].job.id = id}
WonMovesOf(id) == {i \in MovesOf(id) : requests[i].outcome = "ok"}
LastWonMoveOf(id) == CHOOSE i \in WonMovesOf(id) : \A k \in WonMovesOf(id) : k <= i

\* C29: once every drop sent for a job has been answered and at least one of
\* them succeeded, the job list shows the job at the start written by the last
\* of the succeeded ones, whatever the order of the answers.
C29_LastSuccessShown ==
    \A job \in Range(jobs) :
        (/\ WonMovesOf(job.id) # {}
         /\ \A i \in MovesOf(job.id) : ~Pending(i) /\ requests[i].via = "drop")
            => parseJobDate(job) = DateOf(requests[LastWonMoveOf(job.id)].date,
                                          requests[LastWonMoveOf(job.id)].startTime)

\* A step of the run in flight: it alone changes the requests while it lasts.
RunStepNow == run # <<>> /\ requests' # requests

\* Every request of the attempt that has just ended was accepted.
AttemptAccepted ==
    \A i \in 1..Len(requests') :
        requests'[i].attempt = requests'[Len(requests')].attempt
            => requests'[i].outcome = "ok"

\* What C30 asks of one step.
C30_Step ==
    /\ RunStepNow =>
          LET held == run[1]
              answer == requests'[held.at].outcome
          IN  IF answer = "failed"
              THEN /\ jobs' = jobs
                   /\ pendingMove' = pendingMove
                   /\ saveError' = "Unable to reschedule. Try again."
                   /\ ~saving'
              ELSE IF held.sent < Len(held.planned)
              THEN /\ jobs' = jobs
                   /\ pendingMove' = pendingMove
                   /\ saving'
              ELSE /\ AttemptAccepted
                   /\ pendingMove' = NoMove
                   /\ \E job \in Range(jobs') :
                         /\ job.id = held.job.id
                         /\ job.date = held.updatedDateTime
                         /\ job.hours = held.hours
                   /\ ~saving'
    /\ (fetched /\ jobs' # jobs) => (RunStepNow /\ AttemptAccepted)
    /\ (run # <<>> /\ pendingMove' # pendingMove /\ requests' # requests)
          => AttemptAccepted
    /\ (run = <<>> /\ run' # <<>>) => saving'

\* C30: a run of executeReschedule sets saving and every run resets it in the
\* end.  Its steps leave the job list and the pending move alone until the
\* last planned request has been accepted; then the pending move is cleared
\* and the job list shows the new placement.  A refused request ends the run
\* with the pending move and the job list as they were and the error message
\* set.
C30_RunSettles ==
    /\ [][C30_Step]_vars
    /\ (saving ~> ~saving)

\* A run has ended on a refused cascaded request after its primary request
\* was accepted: saving is off, the form is still open, the error is showing.
C30_Witness ==
    /\ ~saving
    /\ run = <<>>
    /\ HasMove
    /\ saveError = "Unable to reschedule. Try again."
    /\ Len(requests) >= 2
    /\ requests[Len(requests)].via = "cascade"
    /\ requests[Len(requests)].outcome = "failed"
    /\ requests[1].outcome = "ok"

====
